---- MODULE Spec2Model ----
(***************************************************************************)
(* A model of gcloud/datastore/helpers.py: the codec between the Cloud     *)
(* Datastore protobuf messages (Key, Value, Entity) and the in-memory      *)
(* Key / Entity / value objects, the preparation of keys for a request and *)
(* the fuzzy comparison of dataset IDs.                                    *)
(*                                                                         *)
(* Conventions.                                                            *)
(*  - An optional protobuf field is a sequence of length 0 (not set) or 1  *)
(*    (set, holding the value); HasField is "length 1".  The same shape    *)
(*    models a Python attribute that is None (<<>>) or a value (<<v>>).    *)
(*  - A repeated protobuf field is a sequence.                             *)
(*  - A Python string that the code slices is a sequence of characters.    *)
(*  - A Python value is a record [t |-> <type>, <type> |-> <payload>]: the *)
(*    payload is held under the type's name, so that values of different   *)
(*    types are records with different fields.                             *)
(*  - A raised exception is the value Raised(<exception type>).            *)
(***************************************************************************)
EXTENDS Integers, Sequences, FiniteSets, TLC

VARIABLES
    \* _dataset_ids_equal: the two arguments and the returned boolean
    dataset_id1, dataset_id2, ids_result,
    \* keys: the protobuf Key objects alive (index = object identity), the
    \* last operation, its argument and what it returned; the request field
    key_heap, key_op, key_arg, key_ret, key_decoded, request_field_pb,
    \* _pb_attr_value: the argument and the (attribute name, value) returned
    attr_val, attr_out,
    \* values: the protobuf Value written to, its content before the last
    \* _set_protobuf_value call, that call's argument and outcome, the number
    \* of calls and whether all succeeded, the last decoded result
    value_pb, origin, pb_before, val, set_status, calls, all_ok, decoded,
    \* entities: the protobuf Entity (received, or written by the encoding),
    \* where it came from, the Entity encoded, the encoding's outcome and the
    \* result of entity_from_protobuf
    entity_pb, entity_origin, entity_src, entity_status, entity_out

idVars == <<dataset_id1, dataset_id2, ids_result>>
keyVars == <<key_heap, key_op, key_arg, key_ret, key_decoded, request_field_pb>>
attrVars == <<attr_val, attr_out>>
valueVars == <<value_pb, origin, pb_before, val, set_status, calls, all_ok, decoded>>
entityVars == <<entity_pb, entity_origin, entity_src, entity_status, entity_out>>
vars == <<idVars, keyVars, attrVars, valueVars, entityVars>>

(***************************************************************************)
(* Bounds of the model.                                                    *)
(***************************************************************************)
MaxIdLen == 4
MaxPathLen == 2
MaxKeyObjects == 3
MaxListLen == 2
MaxCalls == 2
MaxProps == 2

(***************************************************************************)
(* Shared helpers: optional fields, exceptions.                            *)
(***************************************************************************)
Absent == <<>>
Present(x) == <<x>>
HasField(field) == Len(field) = 1
Raised(kind) == [t |-> "raise", raise |-> kind]

(***************************************************************************)
(* _dataset_ids_equal                                                      *)
(***************************************************************************)
Alphabet == {"s", "e", "~"}
DatasetIds == UNION {[1..n -> Alphabet] : n \in 0..MaxIdLen}

\* str.startswith(prefix)
startswith(str, prefix) ==
    /\ Len(str) >= Len(prefix)
    /\ SubSeq(str, 1, Len(prefix)) = prefix

\* str[2:]
strip_prefix(str) == SubSeq(str, 3, Len(str))

dataset_ids_equal(id1, id2) ==
    IF id1 = id2 THEN TRUE
    ELSE IF startswith(id1, <<"s", "~">>) \/ startswith(id1, <<"e", "~">>)
         THEN strip_prefix(id1) = id2
    ELSE IF startswith(id2, <<"s", "~">>) \/ startswith(id2, <<"e", "~">>)
         THEN id1 = strip_prefix(id2)
    ELSE FALSE

CompareDatasetIds ==
    /\ ids_result = "pending"
    /\ ids_result' = IF dataset_ids_equal(dataset_id1, dataset_id2)
                     THEN "True" ELSE "False"
    /\ UNCHANGED <<dataset_id1, dataset_id2>>
    /\ UNCHANGED <<keyVars, attrVars, valueVars, entityVars>>

(***************************************************************************)
(* Protobuf Key messages and the in-memory Key                             *)
(***************************************************************************)
\* A path argument of Key(*path_args): a text kind or name, or an integer id
Str(s) == [t |-> "str", s |-> s, n |-> 0]
Num(n) == [t |-> "int", s |-> "", n |-> n]

Kinds == {"Person", "Address"}
PathElementPbs ==
    [kind : Kinds, id : {Absent, Present(123)}, name : {Absent, Present("home")}]
PartitionIdPbs ==
    [dataset_id : {Absent, Present(""), Present("s~foo")},
     namespace : {Absent, Present("ns")}]
KeyPbs ==
    [partition_id : PartitionIdPbs,
     path_element : UNION {[1..n -> PathElementPbs] : n \in 0..MaxPathLen}]

\* datastore_pb.Key(): no field set
EmptyKeyPb ==
    [partition_id |-> [dataset_id |-> Absent, namespace |-> Absent],
     path_element |-> <<>>]

RECURSIVE path_args_of(_)
path_args_of(path_element) ==
    IF path_element = <<>> THEN <<>>
    ELSE LET element == Head(path_element) IN
         <<Str(element.kind)>>
         \o (IF HasField(element.id) THEN <<Num(element.id[1])>> ELSE <<>>)
         \o (IF HasField(element.name) THEN <<Str(element.name[1])>> ELSE <<>>)
         \o path_args_of(Tail(path_element))

\* Key(*path_args, namespace=namespace, dataset_id=dataset_id) as a data holder
Key(path_args, namespace, dataset_id) ==
    [flat_path |-> path_args, namespace |-> namespace, dataset_id |-> dataset_id]

\* A variant that reads the partition fields without asking HasField: an unset
\* string field reads as its default, the empty string
key_from_protobuf_unconditional(pb) ==
    Key(path_args_of(pb.path_element),
        IF HasField(pb.partition_id.namespace)
        THEN Present(pb.partition_id.namespace[1]) ELSE Present(""),
        IF HasField(pb.partition_id.dataset_id)
        THEN Present(pb.partition_id.dataset_id[1]) ELSE Present(""))

key_from_protobuf(pb) ==
    Key(path_args_of(pb.path_element),
        IF HasField(pb.partition_id.namespace)
        THEN Present(pb.partition_id.namespace[1]) ELSE Absent,
        IF HasField(pb.partition_id.dataset_id)
        THEN Present(pb.partition_id.dataset_id[1]) ELSE Absent)

\* Key.path: the flat path arguments taken two by two, a trailing kind alone
\* being an incomplete segment
RECURSIVE parse_path(_)
parse_path(path_args) ==
    IF path_args = <<>> THEN <<>>
    ELSE IF Len(path_args) = 1
         THEN <<[kind |-> path_args[1], id_or_name |-> Absent]>>
    ELSE <<[kind |-> path_args[1], id_or_name |-> Present(path_args[2])]>>
         \o parse_path(SubSeq(path_args, 3, Len(path_args)))

\* new_key_pb.CopyFrom(key_pb); new_key_pb.partition_id.ClearField('dataset_id')
cleared_copy(key_pb) ==
    [key_pb EXCEPT !.partition_id.dataset_id = Absent]

\* A variant that clears the field of the caller's object instead of a copy
prepare_key_for_request_in_place(heap, ref) ==
    IF HasField(heap[ref].partition_id.dataset_id)
    THEN [heap |-> [heap EXCEPT ![ref] = cleared_copy(heap[ref])], ret |-> ref]
    ELSE [heap |-> heap, ret |-> ref]

\* _prepare_key_for_request on the object key_heap[ref]: the heap after the call
\* and the reference returned
prepare_key_for_request(heap, ref) ==
    IF HasField(heap[ref].partition_id.dataset_id)
    THEN [heap |-> Append(heap, cleared_copy(heap[ref])), ret |-> Len(heap) + 1]
    ELSE [heap |-> heap, ret |-> ref]

PrepareKeyForRequest ==
  \E ref \in DOMAIN key_heap :
    /\ Len(key_heap) < MaxKeyObjects
    /\ LET r == prepare_key_for_request(key_heap, ref) IN
         /\ key_heap' = r.heap
         /\ key_ret' = r.ret
    /\ key_op' = "prepare"
    /\ key_arg' = ref
    /\ UNCHANGED <<key_decoded, request_field_pb>>
    /\ UNCHANGED <<idVars, attrVars, valueVars, entityVars>>

\* _add_keys_to_request with key_pbs = [key_heap[ref]]
AddKeysToRequest ==
  \E ref \in DOMAIN key_heap :
    /\ Len(key_heap) < MaxKeyObjects
    /\ Len(request_field_pb) < MaxKeyObjects
    /\ LET r == prepare_key_for_request(key_heap, ref) IN
         /\ key_heap' = r.heap
         /\ key_ret' = 0
         /\ request_field_pb' = Append(request_field_pb, r.heap[r.ret])
    /\ key_op' = "add"
    /\ key_arg' = ref
    /\ UNCHANGED key_decoded
    /\ UNCHANGED <<idVars, attrVars, valueVars, entityVars>>

KeyFromProtobuf ==
  \E ref \in DOMAIN key_heap :
    /\ key_decoded' = key_from_protobuf(key_heap[ref])
    /\ key_op' = "decode"
    /\ key_arg' = ref
    /\ key_ret' = 0
    /\ UNCHANGED <<key_heap, request_field_pb>>
    /\ UNCHANGED <<idVars, attrVars, valueVars, entityVars>>

(***************************************************************************)
(* Python values                                                           *)
(***************************************************************************)
\* An integer of any size as three limbs: hi * Limb^2 + mid * Limb + lo with
\* mid and lo in 0 .. Limb-1 (Python integers are unbounded)
Limb == 2^21
BigInt(hi, mid, lo) == <<hi, mid, lo>>
BigLeq(a, b) ==
    \/ a[1] < b[1]
    \/ a[1] = b[1] /\ a[2] < b[2]
    \/ a[1] = b[1] /\ a[2] = b[2] /\ a[3] <= b[3]

\* Int64ValueChecker._MIN = -(1 << 63) and ._MAX = (1 << 63) - 1
INT64_MIN == BigInt(-Limb, 0, 0)
INT64_MAX == BigInt(Limb - 1, Limb - 1, Limb - 1)

PyNone == [t |-> "NoneType", NoneType |-> 0]
PyBool(b) == [t |-> "bool", bool |-> b]
PyInt(n) == [t |-> "int", int |-> n]
PyFloat(x) == [t |-> "float", float |-> x]
\* a datetime: calendar.timegm of its UTC time tuple, its microsecond, its tzinfo
PyDatetime(secs, micro, tz) ==
    [t |-> "datetime",
     datetime |-> [timegm |-> secs, microsecond |-> micro, tzinfo |-> tz]]
PyText(str) == [t |-> "unicode", unicode |-> str]
PyBytes(str) == [t |-> "bytes", bytes |-> str]
PyKey(key) == [t |-> "Key", Key |-> key]
PyEntity(key, items, exclude) ==
    [t |-> "Entity",
     Entity |-> [key |-> key, items |-> items, exclude_from_indexes |-> exclude]]
PyList(items) == [t |-> "list", list |-> items]
\* a value of a type the code has no branch for
PyTuple == [t |-> "tuple", tuple |-> 0]

\* Placeholders of the model: no call made yet
Pending == [t |-> "pending", pending |-> 0]

(***************************************************************************)
(* Protobuf Value and Entity messages                                      *)
(***************************************************************************)
\* datastore_pb.Value(): no field set, no list element
EmptyValuePb ==
    [timestamp_microseconds_value |-> Absent, key_value |-> Absent,
     boolean_value |-> Absent, double_value |-> Absent,
     integer_value |-> Absent, string_value |-> Absent,
     blob_value |-> Absent, entity_value |-> Absent,
     list_value |-> <<>>, indexed |-> Absent]

\* value_pb.indexed: the field, or its declared default (true) when not set
Indexed(pb) ==
    IF HasField(pb.indexed) THEN pb.indexed[1] ELSE TRUE

\* datastore_pb.Entity(): no key, no property
EmptyEntityPb == [key |-> Absent, property |-> <<>>]

\* pb.key: the field, or an empty Key message when not set
KeyOf(pb) ==
    IF HasField(pb.key) THEN pb.key[1] ELSE EmptyKeyPb

\* Key.to_protobuf: the partition fields the key carries, one path element
\* per segment with id or name according to the identifier's type
key_to_protobuf(key) ==
    [partition_id |-> [dataset_id |-> key.dataset_id, namespace |-> key.namespace],
     path_element |->
        LET path == parse_path(key.flat_path) IN
        [i \in 1..Len(path) |->
            [kind |-> path[i].kind.s,
             id |-> IF HasField(path[i].id_or_name) /\ path[i].id_or_name[1].t = "int"
                    THEN Present(path[i].id_or_name[1].n) ELSE Absent,
             name |-> IF HasField(path[i].id_or_name) /\ path[i].id_or_name[1].t = "str"
                      THEN Present(path[i].id_or_name[1].s) ELSE Absent]]]

(***************************************************************************)
(* _pb_attr_value                                                          *)
(***************************************************************************)
\* INT_VALUE_CHECKER.CheckValue(val): TRUE when it returns, FALSE when it raises
CheckValue(n) == BigLeq(INT64_MIN, n) /\ BigLeq(n, INT64_MAX)

Attr(name, value) == [t |-> "attr", name |-> name \o "_value", value |-> value]

\* A variant that tests the integer types before bool (bool is a subclass of
\* int in Python)
pb_attr_value_int_first(v) ==
    IF v.t = "datetime"
    THEN Attr("timestamp_microseconds",
              v.datetime.timegm * 1000000 + v.datetime.microsecond)
    ELSE IF v.t = "Key" THEN Attr("key", key_to_protobuf(v.Key))
    ELSE IF v.t = "float" THEN Attr("double", v.float)
    ELSE IF v.t = "bool" THEN Attr("integer", v.bool)
    ELSE IF v.t = "int"
         THEN IF CheckValue(v.int) THEN Attr("integer", v.int) ELSE Raised("ValueError")
    ELSE IF v.t = "unicode" THEN Attr("string", v.unicode)
    ELSE IF v.t = "bytes" THEN Attr("blob", v.bytes)
    ELSE IF v.t = "Entity" THEN Attr("entity", v.Entity)
    ELSE IF v.t = "list" THEN Attr("list", v.list)
    ELSE Raised("ValueError")

pb_attr_value(v) ==
    IF v.t = "datetime"
    THEN \* naive is taken as UTC, aware is converted to UTC: timegm is that of
         \* the UTC time tuple either way
         Attr("timestamp_microseconds",
              v.datetime.timegm * 1000000 + v.datetime.microsecond)
    ELSE IF v.t = "Key" THEN Attr("key", key_to_protobuf(v.Key))
    ELSE IF v.t = "bool" THEN Attr("boolean", v.bool)
    ELSE IF v.t = "float" THEN Attr("double", v.float)
    ELSE IF v.t = "int"
         THEN IF CheckValue(v.int) THEN Attr("integer", v.int) ELSE Raised("ValueError")
    ELSE IF v.t = "unicode" THEN Attr("string", v.unicode)
    ELSE IF v.t = "bytes" THEN Attr("blob", v.bytes)
    ELSE IF v.t = "Entity" THEN Attr("entity", v.Entity)
    ELSE IF v.t = "list" THEN Attr("list", v.list)
    ELSE Raised("ValueError")

(***************************************************************************)
(* _get_value_from_value_pb and entity_from_protobuf                       *)
(***************************************************************************)
\* entity_props[name] = value on a dict kept as a sequence of items
dict_set(items, name, value) ==
    IF \E i \in 1..Len(items) : items[i].name = name
    THEN [i \in 1..Len(items) |->
            IF items[i].name = name THEN [name |-> name, value |-> value]
            ELSE items[i]]
    ELSE Append(items, [name |-> name, value |-> value])

RECURSIVE dict_update(_, _)
dict_update(items, pairs) ==
    IF pairs = <<>> THEN items
    ELSE dict_update(dict_set(items, Head(pairs).name, Head(pairs).value),
                     Tail(pairs))

RECURSIVE get_value_from_value_pb(_)
RECURSIVE entity_from_protobuf(_)

\* The check of one property in entity_from_protobuf's loop: TRUE when the
\* loop body raises (the value's decoding raises, or the value is a list whose
\* elements' indexed flags differ)
property_raises(property_pb) ==
    LET value == get_value_from_value_pb(property_pb.value) IN
    \/ value.t = "raise"
    \/ /\ value.t = "list"
       /\ Cardinality({Indexed(property_pb.value.list_value[i]) :
                          i \in 1..Len(property_pb.value.list_value)}) # 1

\* Whether the loop body appends the property's name to exclude_from_indexes
property_excluded(property_pb) ==
    LET value == get_value_from_value_pb(property_pb.value) IN
    IF value.t = "list"
    THEN ~Indexed(property_pb.value.list_value[1])
    ELSE ~Indexed(property_pb.value)

\* A variant that takes the flag of the value itself for lists too
entity_from_protobuf_own_flag(pb) ==
    IF \E i \in 1..Len(pb.property) :
          get_value_from_value_pb(pb.property[i].value).t = "raise"
    THEN Raised("ValueError")
    ELSE PyEntity(
            Present(key_from_protobuf(KeyOf(pb))),
            dict_update(<<>>,
                [i \in 1..Len(pb.property) |->
                    [name |-> pb.property[i].name,
                     value |-> get_value_from_value_pb(pb.property[i].value)]]),
            {pb.property[i].name : i \in
                {j \in 1..Len(pb.property) : ~Indexed(pb.property[j].value)}})

entity_from_protobuf(pb) ==
    IF \E i \in 1..Len(pb.property) : property_raises(pb.property[i])
    THEN Raised("ValueError")
    ELSE PyEntity(
            Present(key_from_protobuf(KeyOf(pb))),
            dict_update(<<>>,
                [i \in 1..Len(pb.property) |->
                    [name |-> pb.property[i].name,
                     value |-> get_value_from_value_pb(pb.property[i].value)]]),
            {pb.property[i].name : i \in
                {j \in 1..Len(pb.property) : property_excluded(pb.property[j])}})

get_value_from_value_pb(pb) ==
    IF HasField(pb.timestamp_microseconds_value)
    THEN LET microseconds == pb.timestamp_microseconds_value[1] IN
         PyDatetime(microseconds \div 1000000, microseconds % 1000000, "UTC")
    ELSE IF HasField(pb.key_value)
         THEN PyKey(key_from_protobuf(pb.key_value[1]))
    ELSE IF HasField(pb.boolean_value) THEN PyBool(pb.boolean_value[1])
    ELSE IF HasField(pb.double_value) THEN PyFloat(pb.double_value[1])
    ELSE IF HasField(pb.integer_value) THEN PyInt(pb.integer_value[1])
    ELSE IF HasField(pb.string_value) THEN PyText(pb.string_value[1])
    ELSE IF HasField(pb.blob_value) THEN PyBytes(pb.blob_value[1])
    ELSE IF HasField(pb.entity_value)
         THEN entity_from_protobuf(pb.entity_value[1])
    ELSE IF pb.list_value # <<>>
         THEN LET result == [i \in 1..Len(pb.list_value) |->
                                get_value_from_value_pb(pb.list_value[i])] IN
              IF \E i \in 1..Len(result) : result[i].t = "raise"
              THEN Raised("ValueError")
              ELSE PyList(result)
    ELSE PyNone

(***************************************************************************)
(* _set_protobuf_value                                                     *)
(***************************************************************************)
\* The outcome of a call that writes into a message: the message as the call
\* leaves it, and whether the call raised
Outcome(pb, raised) == [pb |-> pb, raised |-> raised]

RECURSIVE set_protobuf_value(_, _)
RECURSIVE set_entity_items(_, _)
RECURSIVE set_list_items(_, _)

\* for item_key, value in val.items(): p_pb = e_pb.property.add(); ...
set_entity_items(e_pb, items) ==
    IF items = <<>> THEN Outcome(e_pb, FALSE)
    ELSE LET r == set_protobuf_value(EmptyValuePb, Head(items).value)
             added == [e_pb EXCEPT !.property =
                          Append(@, [name |-> Head(items).name, value |-> r.pb])]
         IN IF r.raised THEN Outcome(added, TRUE)
            ELSE set_entity_items(added, Tail(items))

\* for item in val: i_pb = l_pb.add(); _set_protobuf_value(i_pb, item)
set_list_items(l_pb, items) ==
    IF items = <<>> THEN Outcome(l_pb, FALSE)
    ELSE LET r == set_protobuf_value(EmptyValuePb, Head(items))
             added == Append(l_pb, r.pb)
         IN IF r.raised THEN Outcome(added, TRUE)
            ELSE set_list_items(added, Tail(items))

set_protobuf_value(pb, v) ==
    IF v.t = "NoneType" THEN Outcome(EmptyValuePb, FALSE)
    ELSE LET a == pb_attr_value(v) IN
         IF a.t = "raise" THEN Outcome(pb, TRUE)
         ELSE IF a.name = "key_value"
              THEN Outcome([pb EXCEPT !.key_value = Present(a.value)], FALSE)
         ELSE IF a.name = "entity_value"
              THEN LET e_pb == [EmptyEntityPb EXCEPT !.key =
                                   IF HasField(a.value.key)
                                   THEN Present(key_to_protobuf(a.value.key[1]))
                                   ELSE Absent]
                       r == set_entity_items(e_pb, a.value.items)
                   IN Outcome([pb EXCEPT !.entity_value = Present(r.pb)], r.raised)
         ELSE IF a.name = "list_value"
              THEN LET r == set_list_items(pb.list_value, a.value)
                   IN Outcome([pb EXCEPT !.list_value = r.pb], r.raised)
         ELSE Outcome([pb EXCEPT ![a.name] = Present(a.value)], FALSE)

(***************************************************************************)
(* Values the operations are applied to                                    *)
(***************************************************************************)
SampleKey == Key(<<Str("Person"), Num(123)>>, Present("ns"), Present("s~foo"))
SampleChildKey ==
    Key(<<Str("Person"), Num(123), Str("Address"), Str("home")>>, Absent, Absent)
SampleIncompleteKey == Key(<<Str("Person")>>, Absent, Present("s~foo"))

\* Integers around the ends of the signed 64-bit range, and small ones
SampleInts ==
    {BigInt(hi, mid, lo) :
        hi \in {-Limb - 1, -Limb, -1, 0, Limb - 1, Limb},
        mid \in {0, Limb - 1}, lo \in {0, 1, Limb - 1}}
SampleDatetimes ==
    {PyDatetime(secs, micro, tz) :
        secs \in {-1, 0, 1}, micro \in {0, 999999}, tz \in {"UTC", "None"}}

ListElements == {PyInt(BigInt(0, 0, 1)), PyText("a"), PyTuple}
SampleLists ==
    {PyList(l) : l \in UNION {[1..n -> ListElements] : n \in 0..MaxListLen}}

SampleEntities ==
    {PyEntity(key, items, exclude) :
        key \in {Absent, Present(SampleKey)},
        items \in {<<[name |-> "a", value |-> PyInt(BigInt(0, 0, 1))]>>,
                   <<[name |-> "a", value |-> PyText("a")],
                     [name |-> "b", value |-> PyTuple]>>},
        exclude \in {{}, {"a"}}}

\* The arguments of _pb_attr_value
AttrValues ==
    {PyNone, PyBool(TRUE), PyBool(FALSE), PyFloat(0), PyFloat(1),
     PyText(""), PyText("a"), PyBytes(""), PyBytes("a"),
     PyKey(SampleKey), PyKey(SampleChildKey), PyKey(SampleIncompleteKey), PyTuple}
    \cup {PyInt(n) : n \in SampleInts}
    \cup SampleDatetimes \cup SampleLists \cup SampleEntities

\* The arguments of _set_protobuf_value
SetValues ==
    {PyNone, PyBool(TRUE), PyFloat(1), PyText("a"), PyBytes("a"),
     PyKey(SampleKey), PyKey(SampleChildKey), PyTuple,
     PyInt(BigInt(0, 0, 1)), PyInt(INT64_MAX), PyInt(BigInt(Limb, 0, 0)),
     PyDatetime(1, 999999, "UTC"), PyDatetime(-1, 1, "UTC"),
     PyDatetime(1, 5, "None")}
    \cup SampleLists \cup SampleEntities

\* Value messages as a response can carry them: the fields are independent
\* optional fields, so more than one may be set
ReceivedValuePbs ==
    {[EmptyValuePb EXCEPT !.integer_value = Present(BigInt(0, 0, 1)),
                          !.string_value = Present("a")],
     [EmptyValuePb EXCEPT !.boolean_value = Present(TRUE),
                          !.list_value =
                             <<[EmptyValuePb EXCEPT !.string_value = Present("a")]>>],
     [EmptyValuePb EXCEPT !.blob_value = Present("a")]}

(***************************************************************************)
(* Operations on values                                                    *)
(***************************************************************************)
PbAttrValue ==
    /\ attr_out = Pending
    /\ attr_out' = pb_attr_value(attr_val)
    /\ UNCHANGED attr_val
    /\ UNCHANGED <<idVars, keyVars, valueVars, entityVars>>

SetProtobufValue ==
  \E v \in SetValues :
    /\ calls < MaxCalls
    /\ LET r == set_protobuf_value(value_pb, v) IN
         /\ value_pb' = r.pb
         /\ set_status' = IF r.raised THEN "raised" ELSE "ok"
         /\ all_ok' = (all_ok /\ ~r.raised)
    /\ pb_before' = value_pb
    /\ val' = v
    /\ calls' = calls + 1
    /\ decoded' = Pending
    /\ UNCHANGED origin
    /\ UNCHANGED <<idVars, keyVars, attrVars, entityVars>>

GetValueFromValuePb ==
    /\ decoded = Pending
    /\ decoded' = get_value_from_value_pb(value_pb)
    /\ UNCHANGED <<value_pb, origin, pb_before, val, set_status, calls, all_ok>>
    /\ UNCHANGED <<idVars, keyVars, attrVars, entityVars>>

(***************************************************************************)
(* Entities the operations are applied to                                  *)
(***************************************************************************)
PropNames == {"a", "b", "c"}

\* Sequences of up to MaxProps items with distinct names and values in Values
ItemsOver(Values) ==
    {items \in UNION {[1..n -> [name : PropNames, value : Values]] :
                         n \in 0..MaxProps} :
        \A i, j \in 1..Len(items) : items[i].name = items[j].name => i = j}

IntPb(indexed) ==
    [EmptyValuePb EXCEPT !.integer_value = Present(BigInt(0, 0, 1)),
                         !.indexed = indexed]
ListPb(flags, indexed) ==
    [EmptyValuePb EXCEPT !.list_value =
                            [i \in 1..Len(flags) |-> IntPb(Present(flags[i]))],
                         !.indexed = indexed]
EntityValuePb(e_pb) == [EmptyValuePb EXCEPT !.entity_value = Present(e_pb)]

\* Property values as a response can carry them
ReceivedPropertyValuePbs ==
    {IntPb(indexed) : indexed \in {Absent, Present(TRUE), Present(FALSE)}}
    \cup {ListPb(flags, Absent) :
            flags \in UNION {[1..n -> BOOLEAN] : n \in 1..MaxListLen}}
    \cup {ListPb(<<TRUE>>, Present(FALSE)),
          [ListPb(<<TRUE, FALSE>>, Absent)
              EXCEPT !.integer_value = Present(BigInt(0, 0, 1))],
          [EmptyValuePb EXCEPT !.indexed = Present(FALSE)],
          EntityValuePb([key |-> Absent,
                         property |-> <<[name |-> "a",
                                         value |-> ListPb(<<TRUE, FALSE>>, Absent)]>>]),
          EntityValuePb([key |-> Absent,
                         property |-> <<[name |-> "a",
                                         value |-> IntPb(Present(FALSE))]>>])}

SampleKeyPb ==
    [partition_id |-> [dataset_id |-> Present("s~foo"), namespace |-> Absent],
     path_element |-> <<[kind |-> "Person", id |-> Present(123), name |-> Absent]>>]

ReceivedEntityPbs ==
    {[key |-> key, property |-> property] :
        key \in {Absent, Present(SampleKeyPb)},
        property \in {[i \in 1..Len(items) |->
                          [name |-> items[i].name, value |-> items[i].value]] :
                      items \in ItemsOver(ReceivedPropertyValuePbs)}}

\* Entities the caller encodes: at least one property
NewEntities ==
    {e \in {PyEntity(key, items, exclude) :
                key \in {Absent, Present(SampleKey)},
                items \in ItemsOver({PyInt(BigInt(0, 0, 1)), PyTuple,
                                     PyList(<<PyInt(BigInt(0, 0, 1)), PyText("a")>>)})
                          \ {<<>>},
                exclude \in SUBSET PropNames} :
        e.Entity.exclude_from_indexes
            \subseteq {e.Entity.items[i].name : i \in 1..Len(e.Entity.items)}}

(***************************************************************************)
(* Operations on entities                                                  *)
(***************************************************************************)
\* value_pb = Value(); _set_protobuf_value(value_pb, entity): the entity branch
EncodeEntity ==
    /\ entity_origin = "new"
    /\ entity_status = "none"
    /\ LET r == set_protobuf_value(EmptyValuePb, entity_src) IN
         /\ entity_pb' = r.pb.entity_value[1]
         /\ entity_status' = IF r.raised THEN "raised" ELSE "ok"
    /\ UNCHANGED <<entity_origin, entity_src, entity_out>>
    /\ UNCHANGED <<idVars, keyVars, attrVars, valueVars>>

EntityFromProtobuf ==
    /\ entity_origin = "received" \/ entity_status = "ok"
    /\ entity_out = Pending
    /\ entity_out' = entity_from_protobuf(entity_pb)
    /\ UNCHANGED <<entity_pb, entity_origin, entity_src, entity_status>>
    /\ UNCHANGED <<idVars, keyVars, attrVars, valueVars>>

(***************************************************************************)
(* Specifications                                                          *)
(***************************************************************************)
\* _dataset_ids_equal applied to every pair of bounded dataset IDs
IdsInit ==
    /\ dataset_id1 \in DatasetIds
    /\ dataset_id2 \in DatasetIds
    /\ ids_result = "pending"
    /\ key_heap = <<>>
    /\ key_op = "idle"
    /\ key_arg = 0
    /\ key_ret = 0
    /\ key_decoded = Key(<<>>, Absent, Absent)
    /\ request_field_pb = <<>>
    /\ attr_val = Pending
    /\ attr_out = Pending
    /\ value_pb = EmptyValuePb
    /\ origin = "idle"
    /\ pb_before = EmptyValuePb
    /\ val = Pending
    /\ set_status = "none"
    /\ calls = 0
    /\ all_ok = TRUE
    /\ decoded = Pending
    /\ entity_pb = EmptyEntityPb
    /\ entity_origin = "idle"
    /\ entity_src = Pending
    /\ entity_status = "none"
    /\ entity_out = Pending
IdsNext == CompareDatasetIds
SpecIds == IdsInit /\ [][IdsNext]_vars

\* The key operations applied to a protobuf Key received from the caller
KeyInit ==
    /\ key_heap \in {<<k>> : k \in KeyPbs}
    /\ key_op = "none"
    /\ key_arg = 0
    /\ key_ret = 0
    /\ key_decoded = Key(<<>>, Absent, Absent)
    /\ request_field_pb = <<>>
    /\ dataset_id1 = <<>>
    /\ dataset_id2 = <<>>
    /\ ids_result = "idle"
    /\ attr_val = Pending
    /\ attr_out = Pending
    /\ value_pb = EmptyValuePb
    /\ origin = "idle"
    /\ pb_before = EmptyValuePb
    /\ val = Pending
    /\ set_status = "none"
    /\ calls = 0
    /\ all_ok = TRUE
    /\ decoded = Pending
    /\ entity_pb = EmptyEntityPb
    /\ entity_origin = "idle"
    /\ entity_src = Pending
    /\ entity_status = "none"
    /\ entity_out = Pending
KeyNext ==
    \/ PrepareKeyForRequest
    \/ AddKeysToRequest
    \/ KeyFromProtobuf
SpecKey == KeyInit /\ [][KeyNext]_vars

\* _pb_attr_value applied to every sample value
AttrInit ==
    /\ attr_val \in AttrValues
    /\ attr_out = Pending
    /\ dataset_id1 = <<>>
    /\ dataset_id2 = <<>>
    /\ ids_result = "idle"
    /\ key_heap = <<>>
    /\ key_op = "idle"
    /\ key_arg = 0
    /\ key_ret = 0
    /\ key_decoded = Key(<<>>, Absent, Absent)
    /\ request_field_pb = <<>>
    /\ value_pb = EmptyValuePb
    /\ origin = "idle"
    /\ pb_before = EmptyValuePb
    /\ val = Pending
    /\ set_status = "none"
    /\ calls = 0
    /\ all_ok = TRUE
    /\ decoded = Pending
    /\ entity_pb = EmptyEntityPb
    /\ entity_origin = "idle"
    /\ entity_src = Pending
    /\ entity_status = "none"
    /\ entity_out = Pending
AttrNext == PbAttrValue
SpecAttr == AttrInit /\ [][AttrNext]_vars

\* A protobuf Value, new or received, written by _set_protobuf_value calls
\* and read by _get_value_from_value_pb
Init ==
    /\ \/ value_pb = EmptyValuePb /\ origin = "new"
       \/ value_pb \in ReceivedValuePbs /\ origin = "received"
    /\ pb_before = EmptyValuePb
    /\ val = Pending
    /\ set_status = "none"
    /\ calls = 0
    /\ all_ok = TRUE
    /\ decoded = Pending
    /\ dataset_id1 = <<>>
    /\ dataset_id2 = <<>>
    /\ ids_result = "idle"
    /\ key_heap = <<>>
    /\ key_op = "idle"
    /\ key_arg = 0
    /\ key_ret = 0
    /\ key_decoded = Key(<<>>, Absent, Absent)
    /\ request_field_pb = <<>>
    /\ attr_val = Pending
    /\ attr_out = Pending
    /\ entity_pb = EmptyEntityPb
    /\ entity_origin = "idle"
    /\ entity_src = Pending
    /\ entity_status = "none"
    /\ entity_out = Pending
Next ==
    \/ SetProtobufValue
    \/ GetValueFromValuePb
Spec == Init /\ [][Next]_vars

\* A protobuf Entity, received or encoded from an Entity, decoded by
\* entity_from_protobuf
EntityInit ==
    /\ \/ /\ entity_origin = "received"
          /\ entity_pb \in ReceivedEntityPbs
          /\ entity_src = Pending
       \/ /\ entity_origin = "new"
          /\ entity_pb = EmptyEntityPb
          /\ entity_src \in NewEntities
    /\ entity_status = "none"
    /\ entity_out = Pending
    /\ dataset_id1 = <<>>
    /\ dataset_id2 = <<>>
    /\ ids_result = "idle"
    /\ key_heap = <<>>
    /\ key_op = "idle"
    /\ key_arg = 0
    /\ key_ret = 0
    /\ key_decoded = Key(<<>>, Absent, Absent)
    /\ request_field_pb = <<>>
    /\ attr_val = Pending
    /\ attr_out = Pending
    /\ value_pb = EmptyValuePb
    /\ origin = "idle"
    /\ pb_before = EmptyValuePb
    /\ val = Pending
    /\ set_status = "none"
    /\ calls = 0
    /\ all_ok = TRUE
    /\ decoded = Pending
EntityNext ==
    \/ EncodeEntity
    \/ EntityFromProtobuf
SpecEntity == EntityInit /\ [][EntityNext]_vars

(***************************************************************************)
(* Properties of _dataset_ids_equal                                        *)
(***************************************************************************)
Prefixed(id) == startswith(id, <<"s", "~">>) \/ startswith(id, <<"e", "~">>)

\* a is bare and b is 's~' or 'e~' followed by a
PrefixedFormOf(a, b) ==
    /\ ~Prefixed(a)
    /\ \E p \in {"s", "e"} : b = <<p, "~">> \o a

SameDataset(a, b) == a = b \/ PrefixedFormOf(a, b) \/ PrefixedFormOf(b, a)

\* C1: _dataset_ids_equal(a, b) is true exactly when a and b are textually
\* equal or one is bare and the other is 's~' or 'e~' followed by it; two
\* prefixed identifiers that differ never compare equal.
C1_EqualExactlyWhenSameDataset ==
    ids_result \in {"True", "False"} =>
        ((ids_result = "True") <=> SameDataset(dataset_id1, dataset_id2))

(***************************************************************************)
(* Properties of the key operations                                        *)
(***************************************************************************)
\* C5: _prepare_key_for_request returns, for a key that carries a dataset_id,
\* a new object without dataset_id and with the same namespace and path
\* elements, leaving the argument as it was; for a key without dataset_id it
\* returns the argument itself and changes nothing.
C5_PrepareCopiesAndClears ==
    [][key_op' = "prepare" =>
        LET key_pb == key_heap[key_arg'] IN
        IF HasField(key_pb.partition_id.dataset_id)
        THEN /\ key_ret' \notin DOMAIN key_heap
             /\ key_ret' \in DOMAIN key_heap'
             /\ ~HasField(key_heap'[key_ret'].partition_id.dataset_id)
             /\ key_heap'[key_ret'].partition_id.namespace
                    = key_pb.partition_id.namespace
             /\ key_heap'[key_ret'].path_element = key_pb.path_element
             /\ \A r \in DOMAIN key_heap : key_heap'[r] = key_heap[r]
        ELSE /\ key_ret' = key_arg'
             /\ key_heap' = key_heap]_vars

C5_Witness ==
    /\ key_op = "prepare"
    /\ key_ret # key_arg
    /\ key_heap[key_arg].partition_id.dataset_id = Present("s~foo")
    /\ key_heap[key_arg].partition_id.namespace = Present("ns")
    /\ key_heap[key_ret].partition_id.namespace = Present("ns")
    /\ Len(key_heap[key_arg].path_element) = 2

ExpectedSegment(element) ==
    [kind |-> Str(element.kind),
     id_or_name |-> IF HasField(element.id) THEN Present(Num(element.id[1]))
                    ELSE IF HasField(element.name)
                         THEN Present(Str(element.name[1]))
                    ELSE Absent]

DecodedAsClaimed(pb, key) ==
    /\ Len(parse_path(key.flat_path)) = Len(pb.path_element)
    /\ \A i \in 1..Len(pb.path_element) :
          parse_path(key.flat_path)[i] = ExpectedSegment(pb.path_element[i])
    /\ key.dataset_id = pb.partition_id.dataset_id
    /\ key.namespace = pb.partition_id.namespace

\* Every element has at most one of id and name, and only the last element
\* may have neither
ConformantKeyPb(pb) ==
    \A i \in 1..Len(pb.path_element) :
        LET element == pb.path_element[i] IN
        /\ ~(HasField(element.id) /\ HasField(element.name))
        /\ i < Len(pb.path_element) =>
              (HasField(element.id) \/ HasField(element.name))

\* C7 as stated: for every wire key, key_from_protobuf yields one
\* (kind, identifier) segment per path element, in order, the identifier
\* being the id if present, else the name if present, else absent; and the
\* partition's dataset_id and namespace, None when the field is not set.
C7_OneSegmentPerElement ==
    key_op = "decode" => DecodedAsClaimed(key_heap[key_arg], key_decoded)

\* C7 amended: the same, for every wire key whose path elements each carry at
\* most one of id and name and of which only the last may carry neither.
C7_OneSegmentPerElementConformant ==
    (key_op = "decode" /\ ConformantKeyPb(key_heap[key_arg])) =>
        DecodedAsClaimed(key_heap[key_arg], key_decoded)

C7_Witness ==
    /\ key_op = "decode"
    /\ ConformantKeyPb(key_heap[key_arg])
    /\ key_heap[key_arg].path_element
         = <<[kind |-> "Person", id |-> Present(123), name |-> Absent],
             [kind |-> "Address", id |-> Absent, name |-> Present("home")]>>
    /\ ~HasField(key_heap[key_arg].partition_id.dataset_id)
    /\ parse_path(key_decoded.flat_path)
         = <<[kind |-> Str("Person"), id_or_name |-> Present(Num(123))],
             [kind |-> Str("Address"), id_or_name |-> Present(Str("home"))]>>

(***************************************************************************)
(* Properties of _pb_attr_value                                            *)
(***************************************************************************)
SupportedTypes ==
    {"datetime", "Key", "bool", "float", "int", "unicode", "bytes", "Entity", "list"}

ClaimedTag(type) ==
    CASE type = "datetime" -> "timestamp_microseconds_value"
      [] type = "Key" -> "key_value"
      [] type = "bool" -> "boolean_value"
      [] type = "float" -> "double_value"
      [] type = "int" -> "integer_value"
      [] type = "unicode" -> "string_value"
      [] type = "bytes" -> "blob_value"
      [] type = "Entity" -> "entity_value"
      [] type = "list" -> "list_value"

\* -2^63 <= n <= 2^63 - 1, on the limbs: the top limb is a signed 22-bit number
InInt64Range(n) == -Limb <= n[1] /\ n[1] <= Limb - 1

\* C6: _pb_attr_value picks the attribute name from the value's type alone
\* (bool gives boolean_value, never integer_value); an integer is accepted
\* exactly when it is in the signed 64-bit range and raises otherwise; a
\* value of any other type raises.
C6_TagFromTypeAlone ==
    attr_out # Pending =>
        IF attr_val.t \notin SupportedTypes THEN attr_out = Raised("ValueError")
        ELSE IF attr_val.t = "int" /\ ~InInt64Range(attr_val.int)
             THEN attr_out = Raised("ValueError")
        ELSE /\ attr_out.t = "attr"
             /\ attr_out.name = ClaimedTag(attr_val.t)

C6_Witness ==
    /\ attr_val = PyInt(INT64_MAX)
    /\ attr_out.t = "attr"
    /\ attr_out.name = "integer_value"
    /\ attr_out.value = INT64_MAX

(***************************************************************************)
(* Properties of _set_protobuf_value and _get_value_from_value_pb          *)
(***************************************************************************)
TagFields ==
    {"timestamp_microseconds_value", "key_value", "boolean_value",
     "double_value", "integer_value", "string_value", "blob_value",
     "entity_value"}

\* The tag fields of a Value message that are populated
PopulatedTags(pb) ==
    {f \in TagFields : HasField(pb[f])}
    \cup (IF pb.list_value # <<>> THEN {"list_value"} ELSE {})

\* The values the value round trip is claimed for
SupportedValue(v) ==
    \/ v.t \in {"NoneType", "bool", "int", "float", "unicode", "bytes", "Key", "Entity"}
    \/ v.t = "datetime" /\ v.datetime.tzinfo = "UTC"
    \/ /\ v.t = "list"
       /\ \A i \in 1..Len(v.list) :
            v.list[i].t \in {"NoneType", "bool", "int", "float", "unicode", "bytes",
                          "Key", "Entity"}

\* C3: a supported value written into a new Value message by
\* _set_protobuf_value and read back by _get_value_from_value_pb is the value
\* written.
C3_ValueRoundTrip ==
    (/\ origin = "new"
     /\ calls = 1
     /\ set_status = "ok"
     /\ decoded # Pending
     /\ SupportedValue(val)) => decoded = val

\* C8: _get_value_from_value_pb raises on a Value message with more than one
\* tag field populated instead of returning the value of one of them.
C8_MultipleTagsRejected ==
    (decoded # Pending /\ Cardinality(PopulatedTags(value_pb)) > 1) =>
        decoded.t = "raise"

\* C9: a _set_protobuf_value call that raises leaves the Value message as it
\* was before the call.
C9_FailureLeavesValueUnchanged ==
    set_status = "raised" => value_pb = pb_before

\* C10: after successful _set_protobuf_value calls on one new Value message
\* the message holds the last value only: no tag after None, else exactly the
\* tag of the last value, a list_value holding exactly the last list's elements.
C10_HoldsLastValueOnly ==
    (origin = "new" /\ calls >= 1 /\ all_ok) =>
        IF val.t = "NoneType" THEN PopulatedTags(value_pb) = {}
        ELSE IF val.t = "list"
             THEN /\ PopulatedTags(value_pb) \subseteq {"list_value"}
                  /\ Len(value_pb.list_value) = Len(val.list)
                  /\ \A i \in 1..Len(val.list) :
                        get_value_from_value_pb(value_pb.list_value[i]) = val.list[i]
        ELSE PopulatedTags(value_pb) = {ClaimedTag(val.t)}

(***************************************************************************)
(* Properties of entity_from_protobuf and of the entity round trip         *)
(***************************************************************************)
ScalarTags == TagFields \ {"entity_value"}

\* The Value message decodes through its list: no tag field is populated and
\* there are list elements
IsListPb(pb) == PopulatedTags(pb) = {"list_value"}

\* The Value message decodes through its entity_value
IsEntityPb(pb) ==
    /\ HasField(pb.entity_value)
    /\ \A f \in ScalarTags : ~HasField(pb[f])

RECURSIVE HasInconsistentList(_)
\* Some list-valued property of the entity, or of an entity nested in it, has
\* elements whose indexed flags differ
HasInconsistentList(e_pb) ==
    \E i \in 1..Len(e_pb.property) :
        LET pb == e_pb.property[i].value IN
        \/ /\ IsListPb(pb)
           /\ \/ \E j, k \in 1..Len(pb.list_value) :
                    Indexed(pb.list_value[j]) # Indexed(pb.list_value[k])
              \/ \E j \in 1..Len(pb.list_value) :
                    /\ IsEntityPb(pb.list_value[j])
                    /\ HasInconsistentList(pb.list_value[j].entity_value[1])
        \/ /\ IsEntityPb(pb)
           /\ HasInconsistentList(pb.entity_value[1])

\* The indexed flag of a property: the common flag of the elements of a list
\* value, the value's own flag otherwise
ResolvedIndexed(pb) ==
    IF IsListPb(pb) THEN Indexed(pb.list_value[1]) ELSE Indexed(pb)

DistinctNames(e_pb) ==
    \A i, j \in 1..Len(e_pb.property) :
        e_pb.property[i].name = e_pb.property[j].name => i = j

\* C2: entity_from_protobuf on a wire entity with distinct property names
\* raises when some list-valued property has elements whose indexed flags are
\* not all equal; otherwise it returns an entity whose exclude_from_indexes
\* holds exactly the names of the properties whose resolved indexed flag is
\* false.
C2_InconsistentListsRejected ==
    (entity_out # Pending /\ DistinctNames(entity_pb)) =>
        IF HasInconsistentList(entity_pb)
        THEN entity_out = Raised("ValueError")
        ELSE /\ entity_out.t = "Entity"
             /\ entity_out.Entity.exclude_from_indexes
                  = {entity_pb.property[i].name : i \in
                        {j \in 1..Len(entity_pb.property) :
                            ~ResolvedIndexed(entity_pb.property[j].value)}}

C2_Witness ==
    /\ entity_origin = "received"
    /\ Len(entity_pb.property) = 2
    /\ entity_pb.property[1] =
          [name |-> "a", value |-> ListPb(<<FALSE, FALSE>>, Absent)]
    /\ entity_pb.property[2] =
          [name |-> "b", value |-> ListPb(<<TRUE, TRUE>>, Absent)]
    /\ entity_out.t = "Entity"
    /\ entity_out.Entity.exclude_from_indexes = {"a"}

\* C4: an Entity with at least one property, encoded by the entity branch of
\* _set_protobuf_value and decoded by entity_from_protobuf, comes back with
\* the same key, the same properties and the same exclude_from_indexes.
C4_EntityRoundTrip ==
    (entity_origin = "new" /\ entity_status = "ok" /\ entity_out # Pending) =>
        entity_out = entity_src

====
